---- MODULE Spec2Model ----
(***************************************************************************)
(* Orders, menu items, categories, users and reservations of the           *)
(* restaurant application: the routes of server/firebase.ts over the       *)
(* Firestore gateway (server/firestore-storage.ts): order lifecycle,       *)
(* role-based order visibility, menu item creation, update and deletion,   *)
(* default data, staff accounts and the reservation list.                  *)
(*                                                                         *)
(* Every `await` on the document store is a scheduling point: a handler is *)
(* one action per store round trip, and handlers of different requests     *)
(* interleave between them.                                                *)
(*                                                                         *)
(*   Spec        the order routes over a store that answers every call     *)
(*   SpecMenu    the menu item gateway operations, DELETE                  *)
(*               /api/menu-items/:id and the image upload                  *)
(*   SpecFault   the order gateway and PATCH /api/orders/:id over a store  *)
(*               that may reject any call                                  *)
(*   SpecUpdate  the update operations of both collections, interleaved    *)
(*               with creations and deletions                              *)
(*   SpecMenuRoutes      the menu item routes over stores that may reject  *)
(*                       a call                                            *)
(*   SpecCategories      the constructor's initialization, restarts and    *)
(*                       createCategory                                    *)
(*   SpecCategoriesFair  the same under fair scheduling                    *)
(*   SpecStaff           POST /api/users/create-staff over the in-memory   *)
(*                       user map                                          *)
(*   SpecUsers           the same with createUser called on the gateway    *)
(*   SpecReservations    creation and listing of reservations              *)
(***************************************************************************)
EXTENDS Integers, Sequences, FiniteSets, TLC

VARIABLES users, orders, now, req, started, menuItems, assets, removed, mreq, last,
          categories, boot, failures, usersMap, userIdCounter, sreq, returned,
          reservations, rreq, created, listed

vars == <<users, orders, now, req, started, menuItems, assets, removed, mreq, last,
          categories, boot, failures, usersMap, userIdCounter, sreq, returned,
          reservations, rreq, created, listed>>

\* the menu collection, the object storage (with the names the application
\* has deleted from it) and the handlers working on them
menuVars == <<menuItems, assets, removed, mreq, last>>

\* the categories collection, the initialization the constructor starts and
\* the number of calls the store has rejected
bootVars == <<categories, boot, failures>>

\* this.users, this.userIdCounter, the handlers of POST
\* /api/users/create-staff and the users createUser has returned
userVars == <<usersMap, userIdCounter, sreq, returned>>

\* the reservations collection, the handlers creating reservations, the ids
\* in the order createReservation returned them and the last list read
reservationVars == <<reservations, rreq, created, listed>>

\* what the order and menu item handlers never touch
otherVars == <<bootVars, userVars, reservationVars>>

(***************************************************************************)
(* Bounds                                                                  *)
(***************************************************************************)
MaxOrders == 2
MaxReq == 2
MaxTime == 1
MaxOps == 3
MaxItems == 2
MaxFailures == 2
MaxReservations == 3

OrderIds == 1..MaxOrders
Reqs == 1..MaxReq
MenuIds == 1..MaxItems
ReservationIds == 1..MaxReservations

(***************************************************************************)
(* Values                                                                  *)
(***************************************************************************)
\* null / undefined of an optional numeric field; user ids start at 1
Null == 0

Statuses == {"pending", "confirmed", "delivered"}
\* req.body.status: a status, or "" when the body carries none
BodyStatuses == Statuses \cup {""}

\* users the in-memory map holds: the seeded client and created staff
DefaultUsers == (1 :> "client") @@ (2 :> "livreur") @@ (3 :> "livreur") @@ (4 :> "owner")

\* req.session.userId of POST /api/orders (Null: guest)
PostSessions == {Null, 1, 2}
\* livreurId of a POST /api/orders payload
PayloadLivreurIds == {Null, 3}

None == <<>>
Some(x) == <<x>>

\* JavaScript values of the fields of a menu item and of an order's totalAmount
Undefined == [type |-> "undefined"]
JsNull == [type |-> "null"]
Num(n) == [type |-> "number", n |-> n]
Str(s) == [type |-> "string", s |-> s]
Bool(b) == [type |-> "boolean", b |-> b]

\* totalAmount of a POST /api/orders payload
PayloadTotalAmount == Str("20")

(***************************************************************************)
(* Record Mapper                                                           *)
(***************************************************************************)
\* data.status || "pending"
StatusOrPending(s) == IF s = "" THEN "pending" ELSE s

\* data.x || null
OrNull(v) == IF v = Null THEN Null ELSE v

\* the mapping of getOrders / getOrder
mapOrder(d) ==
  [id |-> d.id, userId |-> OrNull(d.userId), status |-> StatusOrPending(d.status),
   livreurId |-> OrNull(d.livreurId), totalAmount |-> d.totalAmount,
   createdAt |-> d.createdAt, updatedAt |-> d.updatedAt]

\* the mapping of the filtered queries: status is copied as stored
mapOrderFiltered(d) ==
  [id |-> d.id, userId |-> OrNull(d.userId), status |-> d.status,
   livreurId |-> OrNull(d.livreurId), totalAmount |-> d.totalAmount,
   createdAt |-> d.createdAt, updatedAt |-> d.updatedAt]

(***************************************************************************)
(* Persistence Gateway                                                     *)
(***************************************************************************)
\* orderBy('createdAt', 'desc'); equal instants are ordered by document id
Before(x, y) == \/ x.createdAt > y.createdAt
                \/ x.createdAt = y.createdAt /\ x.id >= y.id

RECURSIVE SortDesc(_)
SortDesc(S) ==
  IF S = {} THEN <<>>
  ELSE LET first == CHOOSE x \in S : \A y \in S : Before(x, y)
       IN <<first>> \o SortDesc(S \ {first})

Docs(store) == {store[i] : i \in DOMAIN store}

\* mutation: the owner's list is filtered by status
getOrders_pendingOnly(store) ==
  LET sorted == SortDesc({d \in Docs(store) : d.status = "pending"})
  IN [i \in 1..Len(sorted) |-> mapOrder(sorted[i])]

getOrders(store) ==
  LET sorted == SortDesc(Docs(store))
  IN [i \in 1..Len(sorted) |-> mapOrder(sorted[i])]

\* mutation: an absent document reads as a blank pending order
getOrder_orBlank(store, id) ==
  IF id \notin DOMAIN store
  THEN Some([id |-> id, userId |-> Null, status |-> "pending", livreurId |-> Null,
             totalAmount |-> Str("0"), createdAt |-> 0, updatedAt |-> 0])
  ELSE Some(mapOrder(store[id]))

getOrder(store, id) ==
  IF id \notin DOMAIN store THEN None ELSE Some(mapOrder(store[id]))

\* mutation: the where('userId', '==', userId) filter is lost
getOrdersByUser_noFilter(store, userId) ==
  LET sorted == SortDesc(Docs(store))
  IN [i \in 1..Len(sorted) |-> mapOrderFiltered(sorted[i])]

getOrdersByUser(store, userId) ==
  LET sorted == SortDesc({d \in Docs(store) : d.userId = userId})
  IN [i \in 1..Len(sorted) |-> mapOrderFiltered(sorted[i])]

getOrdersByLivreur(store, livreurId) ==
  LET sorted == SortDesc({d \in Docs(store) : d.livreurId = livreurId})
  IN [i \in 1..Len(sorted) |-> mapOrderFiltered(sorted[i])]

getPendingOrders(store) ==
  LET sorted == SortDesc({d \in Docs(store) : d.status = "pending"})
  IN [i \in 1..Len(sorted) |-> mapOrderFiltered(sorted[i])]

\* createOrder: the document written for an InsertOrder
createOrder(insertOrder, id, t) ==
  [id |-> id, userId |-> insertOrder.userId, status |-> "pending",
   livreurId |-> insertOrder.livreurId, totalAmount |-> insertOrder.totalAmount,
   createdAt |-> t, updatedAt |-> t]

\* mutation: the instant the caller put in updates is kept
updateData_keepCaller(updates, t) ==
  [f \in DOMAIN updates \cup {"updatedAt"} |->
     IF f \in DOMAIN updates THEN updates[f] ELSE t]

\* updateOrder: { ...updates, updatedAt: Timestamp.fromDate(new Date()) }
updateData(updates, t) ==
  [f \in DOMAIN updates \cup {"updatedAt"} |->
     IF f = "updatedAt" THEN t ELSE updates[f]]

\* mutation: a conditional write, livreurId is assigned only if still unassigned
updateDoc_ifUnassigned(d, data) ==
  [f \in DOMAIN d |->
     IF f \in DOMAIN data /\ ~(f = "livreurId" /\ d.livreurId # Null) THEN data[f] ELSE d[f]]

\* updateDoc(docRef, updateData): the named fields are replaced
updateDoc(d, data) ==
  [f \in DOMAIN d |-> IF f \in DOMAIN data THEN data[f] ELSE d[f]]

(***************************************************************************)
(* Order Visibility & Assignment Engine                                    *)
(***************************************************************************)
\* insertOrderSchema.parse({...req.body, userId: userId || null})
insertOrderSchema_parse(body, sessionUserId) ==
  [userId |-> OrNull(sessionUserId), livreurId |-> body.livreurId, status |-> body.status,
   totalAmount |-> body.totalAmount]

\* mutation: the role check is lost
MayUpdate_anyRole(role) == TRUE

\* user.role === "livreur" || user.role === "owner"
MayUpdate(role) == role \in {"livreur", "owner"}

\* mutation: the status of a delivered order is final
PatchUpdates_terminal(user, order, status, t) ==
  IF status = "" \/ order.status = "delivered" THEN [updatedAt |-> t]
  ELSE IF status = "confirmed" /\ user.role = "livreur" /\ order.livreurId = Null
       THEN [updatedAt |-> t, status |-> status, livreurId |-> user.id]
       ELSE [updatedAt |-> t, status |-> status]

\* mutation: confirming never assigns the courier
PatchUpdates_noAssign(user, order, status, t) ==
  IF status = "" THEN [updatedAt |-> t]
  ELSE [updatedAt |-> t, status |-> status]

\* mutation: the !order.livreurId test is lost
PatchUpdates_reassign(user, order, status, t) ==
  IF status = "" THEN [updatedAt |-> t]
  ELSE IF status = "confirmed" /\ user.role = "livreur"
       THEN [updatedAt |-> t, status |-> status, livreurId |-> user.id]
       ELSE [updatedAt |-> t, status |-> status]

\* the updates object PATCH /api/orders/:id builds
PatchUpdates(user, order, status, t) ==
  IF status = "" THEN [updatedAt |-> t]
  ELSE IF status = "confirmed" /\ user.role = "livreur" /\ order.livreurId = Null
       THEN [updatedAt |-> t, status |-> status, livreurId |-> user.id]
       ELSE [updatedAt |-> t, status |-> status]

\* orderMap.set(order.id, order) over [...pendingOrders, ...assignedOrders]
RECURSIVE orderMap(_, _)
orderMap(acc, list) ==
  IF list = <<>> THEN acc
  ELSE LET o == Head(list)
           hit == {i \in 1..Len(acc) : acc[i].id = o.id}
       IN orderMap(IF hit = {} THEN Append(acc, o)
                   ELSE [i \in 1..Len(acc) |-> IF i \in hit THEN o ELSE acc[i]],
                   Tail(list))

\* mutation: the first copy of an id is kept
mergeOrders_keepFirst(pendingOrders, assignedOrders) ==
  orderMap(<<>>, assignedOrders \o pendingOrders)

mergeOrders(pendingOrders, assignedOrders) ==
  orderMap(<<>>, pendingOrders \o assignedOrders)

(***************************************************************************)
(* Menu items: values, Record Mapper and Persistence Gateway               *)
(***************************************************************************)
\* the values for which `v || d` yields d
Falsy(v) == v \in {Undefined, JsNull, Bool(FALSE), Num(0), Str("")}

\* v || d
OrElse(v, d) == IF Falsy(v) THEN d ELSE v

\* v ?? d
Coalesce(v, d) == IF v \in {Undefined, JsNull} THEN d ELSE v

DecimalDigits == <<"0", "1", "2", "3", "4", "5", "6", "7", "8", "9">>

\* Number.prototype.toString() of a non-negative integer
RECURSIVE Number_toString(_)
Number_toString(n) ==
  IF n < 10 THEN DecimalDigits[n + 1]
  ELSE Number_toString(n \div 10) \o DecimalDigits[(n % 10) + 1]

\* typeof v === 'number' ? v.toString() : v
MoneyToString(v) == IF v.type = "number" THEN Str(Number_toString(v.n)) ELSE v

\* updates.f, undefined when the key is absent
Get(updates, f) == IF f \in DOMAIN updates THEN updates[f] ELSE Undefined

MenuFields == {"name", "description", "categoryId", "price", "deliveryFee", "imageUrl", "available", "popular"}

\* the mapping of getMenuItems / getMenuItem
mapMenuItem(id, data) ==
  [id |-> id, name |-> data.name, description |-> data.description,
   categoryId |-> data.categoryId, price |-> data.price,
   deliveryFee |-> OrElse(data.deliveryFee, Str("0")),
   imageUrl |-> OrElse(data.imageUrl, JsNull),
   available |-> Bool(data.available # Bool(FALSE)),
   popular |-> OrElse(data.popular, Bool(FALSE))]

\* mutation: an absent document reads as an empty item
getMenuItem_orEmpty(store, id) ==
  IF id \notin DOMAIN store
  THEN Some([id |-> id, name |-> Str(""), description |-> Str(""),
             categoryId |-> Str(""), price |-> Str("0"),
             deliveryFee |-> Str("0"), imageUrl |-> JsNull, available |-> Bool(TRUE),
             popular |-> Bool(FALSE)])
  ELSE Some(mapMenuItem(id, store[id]))

getMenuItem(store, id) ==
  IF id \notin DOMAIN store THEN None ELSE Some(mapMenuItem(id, store[id]))

\* mutation: price and deliveryFee are stored as given
createMenuItem_asGiven(insertItem, id) ==
  [id |-> id, name |-> insertItem.name, description |-> insertItem.description,
   categoryId |-> insertItem.categoryId,
   price |-> insertItem.price,
   deliveryFee |-> Coalesce(insertItem.deliveryFee, Str("0")),
   imageUrl |-> Coalesce(insertItem.imageUrl, JsNull),
   available |-> Coalesce(insertItem.available, Bool(TRUE)),
   popular |-> Coalesce(insertItem.popular, Bool(FALSE))]

\* createMenuItem: the document written for an InsertMenuItem
createMenuItem(insertItem, id) ==
  [id |-> id, name |-> insertItem.name, description |-> insertItem.description,
   categoryId |-> insertItem.categoryId,
   price |-> MoneyToString(insertItem.price),
   deliveryFee |-> IF insertItem.deliveryFee.type = "number"
                   THEN Str(Number_toString(insertItem.deliveryFee.n))
                   ELSE Coalesce(insertItem.deliveryFee, Str("0")),
   imageUrl |-> Coalesce(insertItem.imageUrl, JsNull),
   available |-> Coalesce(insertItem.available, Bool(TRUE)),
   popular |-> Coalesce(insertItem.popular, Bool(FALSE))]

\* updateMenuItem: { ...updates, price: ..., deliveryFee: ... }
normalizedUpdates(updates) ==
  [f \in DOMAIN updates \cup {"price", "deliveryFee"} |->
     IF f \in {"price", "deliveryFee"}
     THEN IF Get(updates, f) # Undefined THEN MoneyToString(updates[f]) ELSE Undefined
     ELSE updates[f]]

\* mutation: the keys that are undefined stay in the write
stripUndefined_keep(data) == data

\* updateMenuItem: the keys whose value is undefined are deleted from the write
stripUndefined(data) ==
  [f \in {g \in DOMAIN data : data[g] # Undefined} |-> data[f]]

\* imageUrl.startsWith('/storage/')
StoragePrefix == "/storage/"
startsWith(s, prefix) ==
  Len(s) >= Len(prefix) /\ SubSeq(s, 1, Len(prefix)) = prefix

\* imageUrl && imageUrl.startsWith('/storage/')
IsStored(imageUrl) ==
  ~Falsy(imageUrl) /\ imageUrl.type = "string" /\ startsWith(imageUrl.s, StoragePrefix)

\* imageUrl.substring('/storage/'.length)
fileNameOf(imageUrl) == SubSeq(imageUrl.s, Len(StoragePrefix) + 1, Len(imageUrl.s))

(***************************************************************************)
(* State                                                                   *)
(***************************************************************************)
Idle ==
  [pc |-> "idle", kind |-> "", actor |-> Null, id |-> Null, status |-> "",
   order |-> None, updates |-> None, data |-> None,
   pendingOrders |-> <<>>, assignedOrders |-> <<>>, code |-> 0, body |-> <<>>,
   touched |-> FALSE, raced |-> FALSE, overwritten |-> FALSE,
   failed |-> "", threw |-> FALSE]

\* a handler of the menu collection: a route, or a caller of the gateway
MIdle ==
  [pc |-> "idle", kind |-> "", id |-> Null, insert |-> None, updates |-> None,
   item |-> None, data |-> None, code |-> 0, result |-> None, found |-> FALSE,
   reqBody |-> None, file |-> FALSE, assetFailed |-> FALSE, failed |-> ""]

\* initializeDefaultData as the constructor leaves it: suspended at its
\* import.  snapshot: the ids the getDocs of initializeCategories returned;
\* written: the ids this run has written; interrupted: its catch ran
Constructed ==
  [pc |-> "import", snapshot |-> None, i |-> 1, written |-> {}, interrupted |-> FALSE]

\* a handler of POST /api/users/create-staff
SIdle == [pc |-> "idle", email |-> "", role |-> "", code |-> 0, user |-> None]

Init ==
  /\ users = DefaultUsers
  /\ orders = <<>>
  /\ now = 0
  /\ req = [r \in Reqs |-> Idle]
  /\ started = 0
  /\ menuItems = <<>>
  /\ assets = {}
  /\ removed = {}
  /\ mreq = [r \in Reqs |-> MIdle]
  /\ last = None
  /\ categories = <<>>
  /\ boot = Constructed
  /\ failures = 0
  /\ usersMap = <<>>
  /\ userIdCounter = 1
  /\ sreq = [r \in Reqs |-> SIdle]
  /\ returned = <<>>
  /\ reservations = <<>>
  /\ rreq = [r \in Reqs |-> None]
  /\ created = <<>>
  /\ listed = None

User(id) == [id |-> id, role |-> users[id]]

\* A write of handler w to order id lands (w = 0: a creation).  touched: the
\* store changed under a request in flight (for a PATCH, its own order);
\* overwritten: it changed after the request's own write.
Disturb(q, w, id) ==
  [r \in Reqs |->
     IF r = w \/ q[r].pc = "idle" THEN q[r]
     ELSE IF q[r].kind = "GET" THEN [q[r] EXCEPT !.touched = TRUE]
     ELSE IF q[r].id = id
          THEN [q[r] EXCEPT !.touched = TRUE,
                            !.overwritten = @ \/ q[r].pc = "update_getOrder"]
          ELSE q[r]]

(***************************************************************************)
(* Actions                                                                 *)
(***************************************************************************)
\* a response is observed as soon as it is sent
Sent == \E r \in Reqs : req[r].pc = "done"

\* a request arrives
Arrive ==
  /\ ~Sent
  /\ started < MaxOps
  /\ started' = started + 1

\* it is handled by the first free handler
Accept(r) ==
  /\ req[r].pc = "idle"
  /\ \A q \in Reqs : q < r => req[q].pc # "idle"
  /\ Arrive

\* new Date(): the instant t read; the clock may have advanced since the last reading
Date(t) ==
  /\ t \in now..MaxTime
  /\ now' = t

\* POST /api/orders
PostOrder ==
  \E session \in PostSessions, lid \in PayloadLivreurIds, st \in Statuses,
     id \in OrderIds, t \in 0..MaxTime :
    /\ id \notin DOMAIN orders
    /\ Arrive
    /\ Date(t)
    /\ LET validatedData == insertOrderSchema_parse(
                              [livreurId |-> lid, status |-> st,
                               totalAmount |-> PayloadTotalAmount], session)
       IN orders' = (id :> createOrder(validatedData, id, t)) @@ orders
    /\ req' = Disturb(req, 0, id)
    /\ UNCHANGED <<otherVars, users>>
    /\ UNCHANGED menuVars

\* GET /api/orders: owner and client branches, first read of the livreur branch
GetOrdersBegin(r) ==
  \E actor \in DOMAIN users :
    /\ Accept(r)
    /\ LET user == User(actor)
           base == [Idle EXCEPT !.kind = "GET", !.actor = actor]
       IN req' = [req EXCEPT ![r] =
            IF user.role = "owner"
            THEN [base EXCEPT !.pc = "done", !.code = 200, !.body = getOrders(orders)]
            ELSE IF user.role = "livreur"
            THEN [base EXCEPT !.pc = "get_assigned", !.pendingOrders = getPendingOrders(orders)]
            ELSE [base EXCEPT !.pc = "done", !.code = 200, !.body = getOrdersByUser(orders, user.id)]]
    /\ UNCHANGED <<otherVars, users, orders, now>>
    /\ UNCHANGED menuVars

\* GET /api/orders, livreur branch: second read, merge, response
GetOrdersAssigned(r) ==
  /\ ~Sent
  /\ req[r].pc = "get_assigned"
  /\ LET assigned == getOrdersByLivreur(orders, req[r].actor)
     IN req' = [req EXCEPT ![r].pc = "done", ![r].code = 200,
                           ![r].assignedOrders = assigned,
                           ![r].body = mergeOrders(req[r].pendingOrders, assigned)]
  /\ UNCHANGED <<otherVars, users, orders, now, started>>
  /\ UNCHANGED menuVars

\* PATCH /api/orders/:id up to the call of updateOrder; the instant the route
\* puts in updates.updatedAt is replaced by updateOrder's own reading
PatchBegin(r) ==
  \E actor \in DOMAIN users, id \in OrderIds, status \in BodyStatuses :
    /\ Accept(r)
    /\ LET user == User(actor)
           order == getOrder(orders, id)
           base == [Idle EXCEPT !.kind = "PATCH", !.actor = actor, !.id = id,
                                !.status = status, !.order = order]
       IN req' = [req EXCEPT ![r] =
            IF order = None
            THEN [base EXCEPT !.pc = "done", !.code = 404]
            ELSE IF MayUpdate(user.role)
            THEN [base EXCEPT !.pc = "update_getDoc",
                              !.updates = Some(PatchUpdates(user, order[1], status, now))]
            ELSE [base EXCEPT !.pc = "done", !.code = 403]]
    /\ UNCHANGED <<otherVars, users, orders, now>>
    /\ UNCHANGED menuVars

\* updateOrder: existence check, then the write payload is built
UpdateGetDoc(r) ==
  /\ ~Sent
  /\ req[r].pc = "update_getDoc"
  /\ \E t \in 0..MaxTime :
       /\ Date(t)
       /\ req' = [req EXCEPT ![r] =
            IF req[r].id \notin DOMAIN orders
            THEN [@ EXCEPT !.pc = "done", !.code = 200, !.body = None]
            ELSE [@ EXCEPT !.pc = "update_updateDoc",
                           !.data = Some(updateData(req[r].updates[1], t))]]
  /\ UNCHANGED <<otherVars, users, orders, started>>
  /\ UNCHANGED menuVars

\* updateOrder: the write lands.  raced: the write assigns its courier to an
\* order another courier's write has assigned since this request read it
UpdateDoc(r) ==
  /\ ~Sent
  /\ req[r].pc = "update_updateDoc"
  /\ orders' = [orders EXCEPT ![req[r].id] = updateDoc(@, req[r].data[1])]
  /\ req' = [Disturb(req, r, req[r].id) EXCEPT
               ![r].pc = "update_getOrder",
               ![r].raced = /\ "livreurId" \in DOMAIN req[r].data[1]
                            /\ orders[req[r].id].livreurId \notin {Null, req[r].actor}]
  /\ UNCHANGED <<otherVars, users, now, started>>
  /\ UNCHANGED menuVars

\* updateOrder re-reads the order; the route answers with it
UpdateGetOrder(r) ==
  /\ ~Sent
  /\ req[r].pc = "update_getOrder"
  /\ req' = [req EXCEPT ![r].pc = "done", ![r].code = 200,
                        ![r].body = getOrder(orders, req[r].id)]
  /\ UNCHANGED <<otherVars, users, orders, now, started>>
  /\ UNCHANGED menuVars

\* the response has been sent
Finish(r) ==
  /\ req[r].pc = "done"
  /\ req' = [req EXCEPT ![r] = Idle]
  /\ UNCHANGED <<otherVars, users, orders, now, started>>
  /\ UNCHANGED menuVars

Next ==
  \/ PostOrder
  \/ \E r \in Reqs : GetOrdersBegin(r)
  \/ \E r \in Reqs : GetOrdersAssigned(r)
  \/ \E r \in Reqs : PatchBegin(r)
  \/ \E r \in Reqs : UpdateGetDoc(r)
  \/ \E r \in Reqs : UpdateDoc(r)
  \/ \E r \in Reqs : UpdateGetOrder(r)
  \/ \E r \in Reqs : Finish(r)

Spec == Init /\ [][Next]_vars

(***************************************************************************)
(* Menu items: inputs and actions                                          *)
(***************************************************************************)
\* InsertMenuItem values; an optional field that is absent reads undefined
InsertMenuItems ==
  { [name |-> Str("crepe"), description |-> Str("sugar"),
     categoryId |-> Str("sweet"), price |-> price,
     deliveryFee |-> deliveryFee, imageUrl |-> rest[1], available |-> rest[2],
     popular |-> rest[3]] :
      price \in {Num(12), Str("12")},
      deliveryFee \in {Undefined, Num(3), Str("3")},
      rest \in { <<Undefined, Undefined, Undefined>>,
                 <<Str("/storage/menu-items/a.png"), Bool(FALSE), Bool(TRUE)>> } }

\* Partial<InsertMenuItem> values
UpdateInputs ==
  { [available |-> Bool(FALSE)],
    [price |-> Num(15)],
    [name |-> Str("galette"), price |-> Undefined],
    [imageUrl |-> JsNull],
    [deliveryFee |-> Num(0), popular |-> Bool(TRUE)] }

\* file names of the object storage
AssetNames == {"menu-items/a.png", "menu-items/b.png"}

MSent == \E r \in Reqs : mreq[r].pc = "done"

\* a request or call on the menu collection is taken by the first free handler
MAccept(r) ==
  /\ ~MSent
  /\ mreq[r].pc = "idle"
  /\ \A q \in Reqs : q < r => mreq[q].pc # "idle"
  /\ Arrive

\* the store without document id
Remove(store, id) == [i \in DOMAIN store \ {id} |-> store[i]]

\* POST /api/upload-image: 400 without a file, else the file is stored under
\* a fresh name (timestamp and random string: no name is used twice)
UploadImage ==
  \E file \in BOOLEAN, name \in AssetNames :
    /\ ~MSent
    /\ Arrive
    /\ name \notin assets \cup removed
    /\ assets' = IF file THEN assets \cup {name} ELSE assets
    /\ UNCHANGED <<otherVars, users, orders, now, req, menuItems, removed, mreq, last>>

\* createMenuItem(insertItem)
CallCreateMenuItem(r) ==
  \E insertItem \in InsertMenuItems, id \in MenuIds :
    /\ id \notin DOMAIN menuItems
    /\ MAccept(r)
    /\ LET menuItem == createMenuItem(insertItem, id)
       IN /\ menuItems' = (id :> menuItem) @@ menuItems
          /\ mreq' = [mreq EXCEPT ![r] =
               [MIdle EXCEPT !.pc = "done", !.kind = "createMenuItem", !.id = id,
                             !.insert = Some(insertItem), !.result = Some(menuItem)]]
    /\ last' = None
    /\ UNCHANGED <<otherVars, users, orders, now, req, assets, removed>>

\* updateMenuItem(id, updates): existence check, then the write payload is built
CallUpdateMenuItem(r) ==
  \E id \in MenuIds, updates \in UpdateInputs :
    /\ MAccept(r)
    /\ LET base == [MIdle EXCEPT !.kind = "updateMenuItem", !.id = id,
                                 !.updates = Some(updates)]
       IN mreq' = [mreq EXCEPT ![r] =
            IF id \notin DOMAIN menuItems
            THEN [base EXCEPT !.pc = "done"]
            ELSE [base EXCEPT !.pc = "updateMenuItem_updateDoc", !.found = TRUE,
                              !.item = Some(menuItems[id]),
                              !.data = Some(stripUndefined(normalizedUpdates(updates)))]]
    /\ UNCHANGED <<otherVars, users, orders, now, req, menuItems, assets, removed, last>>

\* updateMenuItem: the write lands; the store rejects the update of a document
\* that has been deleted meanwhile, and the catch returns undefined
UpdateMenuItemDoc(r) ==
  /\ ~Sent /\ ~MSent
  /\ mreq[r].pc = "updateMenuItem_updateDoc"
  /\ IF mreq[r].id \in DOMAIN menuItems
     THEN /\ menuItems' = [menuItems EXCEPT ![mreq[r].id] = updateDoc(@, mreq[r].data[1])]
          /\ mreq' = [mreq EXCEPT ![r].pc = "updateMenuItem_getMenuItem"]
          /\ last' = None
     ELSE /\ mreq' = [mreq EXCEPT ![r].pc = "done"]
          /\ UNCHANGED <<menuItems, last>>
  /\ UNCHANGED <<otherVars, users, orders, now, req, started, assets, removed>>

\* updateMenuItem returns this.getMenuItem(id)
UpdateMenuItemRead(r) ==
  /\ ~Sent /\ ~MSent
  /\ mreq[r].pc = "updateMenuItem_getMenuItem"
  /\ mreq' = [mreq EXCEPT ![r].pc = "done",
                          ![r].result = getMenuItem(menuItems, mreq[r].id)]
  /\ UNCHANGED <<otherVars, users, orders, now, req, started, menuItems, assets, removed, last>>

\* deleteMenuItem(id): deleteDoc, then true
CallDeleteMenuItem(r) ==
  \E id \in MenuIds :
    /\ MAccept(r)
    /\ menuItems' = Remove(menuItems, id)
    /\ mreq' = [mreq EXCEPT ![r] =
         [MIdle EXCEPT !.pc = "done", !.kind = "deleteMenuItem", !.id = id,
                       !.found = id \in DOMAIN menuItems, !.result = Some(Bool(TRUE))]]
    /\ last' = IF id \in DOMAIN menuItems THEN None ELSE last
    /\ UNCHANGED <<otherVars, users, orders, now, req, assets, removed>>

\* DELETE /api/menu-items/:id up to the first store call after getMenuItem
DeleteMenuItemBegin(r) ==
  \E id \in MenuIds :
    /\ MAccept(r)
    /\ LET item == getMenuItem(menuItems, id)
           base == [MIdle EXCEPT !.kind = "DELETE", !.id = id, !.item = item,
                                 !.found = item # None]
       IN mreq' = [mreq EXCEPT ![r] =
            IF item = None
            THEN [base EXCEPT !.pc = "done", !.code = 404]
            ELSE IF IsStored(item[1].imageUrl)
            THEN [base EXCEPT !.pc = "delete_asset"]
            ELSE [base EXCEPT !.pc = "delete_deleteDoc"]]
    /\ UNCHANGED <<otherVars, users, orders, now, req, menuItems, assets, removed, last>>

\* DELETE /api/menu-items/:id: client.delete(fileName)
DeleteMenuItemAsset(r) ==
  /\ ~Sent /\ ~MSent
  /\ mreq[r].pc = "delete_asset"
  /\ assets' = assets \ {fileNameOf(mreq[r].item[1].imageUrl)}
  /\ removed' = removed \cup ({fileNameOf(mreq[r].item[1].imageUrl)} \cap assets)
  /\ mreq' = [mreq EXCEPT ![r].pc = "delete_deleteDoc"]
  /\ UNCHANGED <<otherVars, users, orders, now, req, started, menuItems, last>>

\* DELETE /api/menu-items/:id: storage.deleteMenuItem(id) and the response
DeleteMenuItemDoc(r) ==
  /\ ~Sent /\ ~MSent
  /\ mreq[r].pc = "delete_deleteDoc"
  /\ menuItems' = Remove(menuItems, mreq[r].id)
  /\ mreq' = [mreq EXCEPT ![r].pc = "done", ![r].code = 200]
  /\ last' = None
  /\ UNCHANGED <<otherVars, users, orders, now, req, started, assets, removed>>

\* the response or the returned value has been observed; last keeps it until
\* the next write to the menu collection
MFinish(r) ==
  /\ mreq[r].pc = "done"
  /\ last' = Some([kind |-> mreq[r].kind, id |-> mreq[r].id, code |-> mreq[r].code,
                   result |-> mreq[r].result])
  /\ mreq' = [mreq EXCEPT ![r] = MIdle]
  /\ UNCHANGED <<otherVars, users, orders, now, req, started, menuItems, assets, removed>>

NextMenu ==
  \/ UploadImage
  \/ \E r \in Reqs : CallCreateMenuItem(r)
  \/ \E r \in Reqs : CallUpdateMenuItem(r)
  \/ \E r \in Reqs : UpdateMenuItemDoc(r)
  \/ \E r \in Reqs : UpdateMenuItemRead(r)
  \/ \E r \in Reqs : CallDeleteMenuItem(r)
  \/ \E r \in Reqs : DeleteMenuItemBegin(r)
  \/ \E r \in Reqs : DeleteMenuItemAsset(r)
  \/ \E r \in Reqs : DeleteMenuItemDoc(r)
  \/ \E r \in Reqs : MFinish(r)

SpecMenu == Init /\ [][NextMenu]_vars

(***************************************************************************)
(* Orders over a document store that may reject a call                     *)
(***************************************************************************)
\* InsertOrder values of a direct call of createOrder
InsertOrders ==
  {[userId |-> 1, livreurId |-> Null, status |-> "pending", totalAmount |-> a] :
     a \in {Num(20), Str("20")}}

\* createOrder(insertOrder): the order is built, then written; a rejected
\* setDoc is not caught and reaches the caller as an exception
CallCreateOrder(r) ==
  \E insertOrder \in InsertOrders, id \in OrderIds, t \in 0..MaxTime, ok \in BOOLEAN :
    /\ id \notin DOMAIN orders
    /\ Accept(r)
    /\ Date(t)
    /\ LET order == createOrder(insertOrder, id, t)
           base == [Idle EXCEPT !.pc = "done", !.kind = "createOrder", !.id = id]
       IN IF ok
          THEN /\ orders' = (id :> order) @@ orders
               /\ req' = [Disturb(req, 0, id) EXCEPT ![r] = [base EXCEPT !.body = Some(order)]]
          ELSE /\ orders' = orders
               /\ req' = [req EXCEPT ![r] = [base EXCEPT !.failed = "setDoc", !.threw = TRUE]]
    /\ UNCHANGED <<otherVars, users>>
    /\ UNCHANGED menuVars

\* getOrders(): the list, or [] from the catch when getDocs is rejected
CallGetOrders(r) ==
  \E ok \in BOOLEAN :
    /\ Accept(r)
    /\ req' = [req EXCEPT ![r] =
         IF ok
         THEN [Idle EXCEPT !.pc = "done", !.kind = "getOrders", !.body = getOrders(orders)]
         ELSE [Idle EXCEPT !.pc = "done", !.kind = "getOrders", !.failed = "getDocs"]]
    /\ UNCHANGED <<otherVars, users, orders, now>>
    /\ UNCHANGED menuVars

\* PATCH /api/orders/:id: the getDoc of storage.getOrder is rejected, its
\* catch returns undefined and the route answers 404
PatchBeginFails(r) ==
  \E actor \in DOMAIN users, id \in OrderIds, status \in BodyStatuses :
    /\ Accept(r)
    /\ req' = [req EXCEPT ![r] =
         [Idle EXCEPT !.pc = "done", !.kind = "PATCH", !.actor = actor, !.id = id,
                      !.status = status, !.code = 404, !.failed = "getOrder"]]
    /\ UNCHANGED <<otherVars, users, orders, now>>
    /\ UNCHANGED menuVars

\* updateOrder: the store call in flight (getDoc, updateDoc, or the getDoc of
\* the final getOrder) is rejected; the catch returns undefined, and the route
\* answers res.json(undefined)
UpdateOrderFails(r) ==
  /\ ~Sent
  /\ req[r].pc \in {"update_getDoc", "update_updateDoc", "update_getOrder"}
  /\ req' = [req EXCEPT ![r].pc = "done", ![r].code = 200, ![r].body = None,
                        ![r].failed = req[r].pc]
  /\ UNCHANGED <<otherVars, users, orders, now, started>>
  /\ UNCHANGED menuVars

NextFault ==
  \/ \E r \in Reqs : CallCreateOrder(r)
  \/ \E r \in Reqs : CallGetOrders(r)
  \/ \E r \in Reqs : PatchBegin(r)
  \/ \E r \in Reqs : PatchBeginFails(r)
  \/ \E r \in Reqs : UpdateGetDoc(r)
  \/ \E r \in Reqs : UpdateDoc(r)
  \/ \E r \in Reqs : UpdateGetOrder(r)
  \/ \E r \in Reqs : UpdateOrderFails(r)
  \/ \E r \in Reqs : Finish(r)

SpecFault == Init /\ [][NextFault]_vars

(***************************************************************************)
(* The update operations of both collections                               *)
(***************************************************************************)
\* Partial<InsertOrder> values of a direct call of updateOrder
OrderUpdateInputs == {[status |-> "delivered"], [livreurId |-> 3]}

\* updateOrder(id, updates) called on its own
CallUpdateOrder(r) ==
  \E id \in OrderIds, updates \in OrderUpdateInputs :
    /\ Accept(r)
    /\ req' = [req EXCEPT ![r] =
         [Idle EXCEPT !.pc = "update_getDoc", !.kind = "updateOrder", !.id = id,
                      !.updates = Some(updates)]]
    /\ UNCHANGED <<otherVars, users, orders, now>>
    /\ UNCHANGED menuVars

NextUpdate ==
  \/ \E r \in Reqs : CallCreateOrder(r)
  \/ \E r \in Reqs : PatchBegin(r)
  \/ \E r \in Reqs : CallUpdateOrder(r)
  \/ \E r \in Reqs : UpdateGetDoc(r)
  \/ \E r \in Reqs : UpdateDoc(r)
  \/ \E r \in Reqs : UpdateGetOrder(r)
  \/ \E r \in Reqs : Finish(r)
  \/ \E r \in Reqs : CallCreateMenuItem(r)
  \/ \E r \in Reqs : CallUpdateMenuItem(r)
  \/ \E r \in Reqs : UpdateMenuItemDoc(r)
  \/ \E r \in Reqs : UpdateMenuItemRead(r)
  \/ \E r \in Reqs : CallDeleteMenuItem(r)
  \/ \E r \in Reqs : MFinish(r)

SpecUpdate == Init /\ [][NextUpdate]_vars

(***************************************************************************)
(* Menu item routes over stores that may reject a call                     *)
(***************************************************************************)
\* req.body.x === 'true' || req.body.x === true
IsTrue(v) == Bool(v = Str("true") \/ v = Bool(TRUE))

\* insertMenuItemSchema.parse(menuItemData)
insertMenuItemSchema_parse(menuItemData) == menuItemData

\* req.body of POST /api/menu-items (multipart or JSON: flags arrive as
\* strings or booleans, or not at all)
PostBodies ==
  { [name |-> Str("crepe"), description |-> Str("sugar"), categoryId |-> Str("sweet"),
     price |-> Str("12"), deliveryFee |-> Undefined, imageUrl |-> flags[1],
     available |-> flags[2], popular |-> flags[3]] :
      flags \in { <<Undefined, Undefined, Undefined>>,
                  <<Undefined, Bool(FALSE), Undefined>>,
                  <<Str("/storage/menu-items/a.png"), Str("true"), Str("true")>> } }

\* { ...req.body, available: ..., popular: ... } of POST /api/menu-items
menuItemData(body) ==
  [body EXCEPT !.available = IsTrue(@), !.popular = IsTrue(@)]

\* POST /api/menu-items: 201 with the item, or 500 when setDoc is rejected
\* and createMenuItem throws
PostMenuItem(r) ==
  \E body \in PostBodies, id \in MenuIds, ok \in BOOLEAN :
    /\ id \notin DOMAIN menuItems
    /\ MAccept(r)
    /\ LET validatedData == insertMenuItemSchema_parse(menuItemData(body))
           menuItem == createMenuItem(validatedData, id)
           base == [MIdle EXCEPT !.pc = "done", !.kind = "POST", !.id = id,
                                 !.reqBody = Some(body), !.insert = Some(validatedData)]
       IN IF ok
          THEN /\ menuItems' = (id :> menuItem) @@ menuItems
               /\ mreq' = [mreq EXCEPT ![r] =
                    [base EXCEPT !.code = 201, !.result = Some(menuItem)]]
               /\ last' = None
          ELSE /\ mreq' = [mreq EXCEPT ![r] = [base EXCEPT !.code = 500, !.failed = "setDoc"]]
               /\ UNCHANGED <<menuItems, last>>
    /\ UNCHANGED <<otherVars, users, orders, now, req, assets, removed>>

\* req.body of PATCH /api/menu-items/:id
PatchBodies ==
  { [name |-> Str("galette")],
    [available |-> Str("true"), popular |-> Str("true")],
    [price |-> Num(15), available |-> Bool(FALSE)] }

\* { ...req.body, available: ..., popular: ... } of PATCH /api/menu-items/:id
patchUpdates(body) ==
  [f \in DOMAIN body \cup {"available", "popular"} |->
     IF f \in {"available", "popular"} THEN IsTrue(Get(body, f)) ELSE body[f]]

\* the answer of a route to the value updateMenuItem returned: PATCH answers
\* 404 to undefined, DELETE /api/menu-items/:id/image answers 200 in any case
Responded(q, updatedItem, failed) ==
  [q EXCEPT !.pc = "done", !.result = updatedItem, !.failed = failed,
            !.code = IF q.kind = "PATCH" /\ updatedItem = None THEN 404 ELSE 200]

\* the getDoc of the route's first getMenuItem is rejected: its catch returns
\* undefined and the route answers 404
RouteGetMenuItemFails(r) ==
  \E kind \in {"PATCH", "DELETE", "DELETE image"}, id \in MenuIds :
    /\ MAccept(r)
    /\ mreq' = [mreq EXCEPT ![r] =
         [MIdle EXCEPT !.pc = "done", !.kind = kind, !.id = id, !.code = 404,
                       !.failed = "getMenuItem"]]
    /\ UNCHANGED <<otherVars, users, orders, now, req, menuItems, assets, removed, last>>

\* PATCH /api/menu-items/:id up to the first call after getMenuItem
PatchMenuItemBegin(r) ==
  \E id \in MenuIds, body \in PatchBodies, file \in BOOLEAN :
    /\ MAccept(r)
    /\ LET currentItem == getMenuItem(menuItems, id)
           base == [MIdle EXCEPT !.kind = "PATCH", !.id = id, !.item = currentItem,
                                 !.found = currentItem # None, !.reqBody = Some(body),
                                 !.file = file]
       IN mreq' = [mreq EXCEPT ![r] =
            IF currentItem = None
            THEN [base EXCEPT !.pc = "done", !.code = 404]
            ELSE [base EXCEPT !.pc = IF file THEN "patch_upload" ELSE "route_getDoc",
                              !.updates = Some(patchUpdates(body))]]
    /\ UNCHANGED <<otherVars, users, orders, now, req, menuItems, assets, removed, last>>

\* PATCH /api/menu-items/:id: the new image is stored under a fresh name and
\* updates.imageUrl points to it
PatchUpload(r) ==
  \E name \in AssetNames :
    /\ ~Sent /\ ~MSent
    /\ mreq[r].pc = "patch_upload"
    /\ name \notin assets \cup removed
    /\ assets' = assets \cup {name}
    /\ mreq' = [mreq EXCEPT
         ![r].updates = Some([f \in DOMAIN @[1] \cup {"imageUrl"} |->
                                IF f = "imageUrl" THEN Str(StoragePrefix \o name) ELSE @[1][f]]),
         ![r].pc = IF IsStored(mreq[r].item[1].imageUrl) THEN "route_asset"
                   ELSE "route_getDoc"]
    /\ UNCHANGED <<otherVars, users, orders, now, req, started, menuItems, removed, last>>

\* DELETE /api/menu-items/:id/image up to the first call after getMenuItem
DeleteImageBegin(r) ==
  \E id \in MenuIds :
    /\ MAccept(r)
    /\ LET item == getMenuItem(menuItems, id)
           base == [MIdle EXCEPT !.kind = "DELETE image", !.id = id, !.item = item,
                                 !.found = item # None]
       IN mreq' = [mreq EXCEPT ![r] =
            IF item = None
            THEN [base EXCEPT !.pc = "done", !.code = 404]
            ELSE [base EXCEPT !.pc = IF IsStored(item[1].imageUrl) THEN "route_asset"
                                     ELSE "route_getDoc",
                              !.updates = Some([imageUrl |-> JsNull])]]
    /\ UNCHANGED <<otherVars, users, orders, now, req, menuItems, assets, removed, last>>

\* mutation: a failure of client.delete reaches the route's outer catch
RouteDeleteAsset_uncaught(r) ==
  \E ok \in BOOLEAN :
    /\ ~Sent /\ ~MSent
    /\ mreq[r].pc = "route_asset"
    /\ LET fileName == fileNameOf(mreq[r].item[1].imageUrl)
       IN /\ assets' = IF ok THEN assets \ {fileName} ELSE assets
          /\ removed' = IF ok THEN removed \cup ({fileName} \cap assets) ELSE removed
    /\ mreq' = [mreq EXCEPT ![r] =
         IF ok THEN [@ EXCEPT !.pc = "route_getDoc"]
         ELSE [@ EXCEPT !.pc = "done", !.code = 500, !.assetFailed = TRUE]]
    /\ UNCHANGED <<otherVars, users, orders, now, req, started, menuItems, last>>

\* PATCH and DELETE image: client.delete of the asset the item read at the
\* start referenced; a failure is caught and the route goes on
RouteDeleteAsset(r) ==
  \E ok \in BOOLEAN :
    /\ ~Sent /\ ~MSent
    /\ mreq[r].pc = "route_asset"
    /\ LET fileName == fileNameOf(mreq[r].item[1].imageUrl)
       IN /\ assets' = IF ok THEN assets \ {fileName} ELSE assets
          /\ removed' = IF ok THEN removed \cup ({fileName} \cap assets) ELSE removed
    /\ mreq' = [mreq EXCEPT ![r].pc = "route_getDoc", ![r].assetFailed = ~ok]
    /\ UNCHANGED <<otherVars, users, orders, now, req, started, menuItems, last>>

\* updateMenuItem called by a route: existence check and write payload;
\* undefined when the document is absent or getDoc is rejected
RouteUpdateGetDoc(r) ==
  \E ok \in BOOLEAN :
    /\ ~Sent /\ ~MSent
    /\ mreq[r].pc = "route_getDoc"
    /\ mreq' = [mreq EXCEPT ![r] =
         IF ~ok THEN Responded(@, None, "getDoc")
         ELSE IF mreq[r].id \notin DOMAIN menuItems THEN Responded(@, None, "")
         ELSE [@ EXCEPT !.pc = "route_updateDoc",
                        !.data = Some(stripUndefined(normalizedUpdates(mreq[r].updates[1])))]]
    /\ UNCHANGED <<otherVars, users, orders, now, req, started, menuItems, assets, removed, last>>

\* updateMenuItem called by a route: the write lands, or it is rejected (by a
\* failure, or because the document has been deleted) and undefined returned
RouteUpdateDoc(r) ==
  \E ok \in BOOLEAN :
    /\ ~Sent /\ ~MSent
    /\ mreq[r].pc = "route_updateDoc"
    /\ IF ok /\ mreq[r].id \in DOMAIN menuItems
       THEN /\ menuItems' = [menuItems EXCEPT ![mreq[r].id] = updateDoc(@, mreq[r].data[1])]
            /\ mreq' = [mreq EXCEPT ![r].pc = "route_getMenuItem"]
            /\ last' = None
       ELSE /\ mreq' = [mreq EXCEPT ![r] = Responded(@, None, IF ok THEN "" ELSE "updateDoc")]
            /\ UNCHANGED <<menuItems, last>>
    /\ UNCHANGED <<otherVars, users, orders, now, req, started, assets, removed>>

\* updateMenuItem called by a route: the final getMenuItem and the answer
RouteUpdateRead(r) ==
  \E ok \in BOOLEAN :
    /\ ~Sent /\ ~MSent
    /\ mreq[r].pc = "route_getMenuItem"
    /\ mreq' = [mreq EXCEPT ![r] =
         IF ok THEN Responded(@, getMenuItem(menuItems, mreq[r].id), "")
         ELSE Responded(@, None, "getMenuItem")]
    /\ UNCHANGED <<otherVars, users, orders, now, req, started, menuItems, assets, removed, last>>

\* DELETE /api/menu-items/:id: client.delete fails, the catch lets the route go on
DeleteMenuItemAssetFails(r) ==
  /\ ~Sent /\ ~MSent
  /\ mreq[r].pc = "delete_asset"
  /\ mreq' = [mreq EXCEPT ![r].pc = "delete_deleteDoc", ![r].assetFailed = TRUE]
  /\ UNCHANGED <<otherVars, users, orders, now, req, started, menuItems, assets, removed, last>>

\* DELETE /api/menu-items/:id: deleteDoc is rejected, deleteMenuItem returns
\* false and the route answers 404
DeleteMenuItemDocFails(r) ==
  /\ ~Sent /\ ~MSent
  /\ mreq[r].pc = "delete_deleteDoc"
  /\ mreq' = [mreq EXCEPT ![r].pc = "done", ![r].code = 404, ![r].failed = "deleteDoc"]
  /\ UNCHANGED <<otherVars, users, orders, now, req, started, menuItems, assets, removed, last>>

NextMenuRoutes ==
  \/ UploadImage
  \/ \E r \in Reqs : PostMenuItem(r)
  \/ \E r \in Reqs : RouteGetMenuItemFails(r)
  \/ \E r \in Reqs : PatchMenuItemBegin(r)
  \/ \E r \in Reqs : PatchUpload(r)
  \/ \E r \in Reqs : DeleteImageBegin(r)
  \/ \E r \in Reqs : RouteDeleteAsset(r)
  \/ \E r \in Reqs : RouteUpdateGetDoc(r)
  \/ \E r \in Reqs : RouteUpdateDoc(r)
  \/ \E r \in Reqs : RouteUpdateRead(r)
  \/ \E r \in Reqs : DeleteMenuItemBegin(r)
  \/ \E r \in Reqs : DeleteMenuItemAsset(r)
  \/ \E r \in Reqs : DeleteMenuItemAssetFails(r)
  \/ \E r \in Reqs : DeleteMenuItemDoc(r)
  \/ \E r \in Reqs : DeleteMenuItemDocFails(r)
  \/ \E r \in Reqs : MFinish(r)

SpecMenuRoutes == Init /\ [][NextMenuRoutes]_vars

(***************************************************************************)
(* Default data: the constructor and the categories collection             *)
(***************************************************************************)
\* categoriesData of initializeCategories (descriptions left out)
categoriesData ==
  << [id |-> "crepe", name |-> "Crêpe", order |-> 1],
     [id |-> "cheesecake", name |-> "Cheesecake", order |-> 2],
     [id |-> "donuts", name |-> "Donuts", order |-> 3],
     [id |-> "mini-pancakes", name |-> "Mini-Pancakes", order |-> 4],
     [id |-> "fondant", name |-> "Fondant", order |-> 5],
     [id |-> "tiramisu", name |-> "Tiramisu", order |-> 6],
     [id |-> "boissons-fraiches", name |-> "Boissons Fraîches", order |-> 7],
     [id |-> "boissons-chaudes", name |-> "Boissons Chaudes", order |-> 8] >>

DefaultCategoryIds == {categoriesData[k].id : k \in DOMAIN categoriesData}

\* the user initializeDefaultData puts under id 1
defaultUser == [id |-> 1, email |-> "test@test.com", role |-> "client"]

\* the store rejects a call
Reject ==
  /\ failures < MaxFailures
  /\ failures' = failures + 1

\* initializeDefaultData once its import has resolved, up to the getDocs of
\* initializeCategories
InitializeDefaultData ==
  /\ boot.pc = "import"
  /\ usersMap' = (1 :> defaultUser) @@ usersMap
  /\ userIdCounter' = 2
  /\ boot' = [boot EXCEPT !.pc = "getDocs"]
  /\ UNCHANGED <<users, orders, now, req, started, menuVars, categories, failures,
                 sreq, returned, reservationVars>>

\* mutation: the default categories are written whatever the snapshot holds
snapshot_empty_always(snapshot) == TRUE

\* snapshot.empty
snapshot_empty(snapshot) == snapshot = {}

\* initializeCategories: the getDocs answers
InitializeCategoriesGetDocs ==
  /\ boot.pc = "getDocs"
  /\ LET snapshot == DOMAIN categories
     IN boot' = [boot EXCEPT !.snapshot = Some(snapshot),
                             !.pc = IF snapshot_empty(snapshot) THEN "setDoc" ELSE "done"]
  /\ UNCHANGED <<users, orders, now, req, started, menuVars, categories, failures,
                 userVars, reservationVars>>

\* initializeCategories: the setDoc of the next default category lands
InitializeCategoriesSetDoc ==
  /\ boot.pc = "setDoc"
  /\ LET category == categoriesData[boot.i]
     IN /\ categories' = (category.id :> category) @@ categories
        /\ boot' = [boot EXCEPT !.written = @ \cup {category.id},
                                !.i = @ + 1,
                                !.pc = IF boot.i = Len(categoriesData) THEN "done" ELSE "setDoc"]
  /\ UNCHANGED <<users, orders, now, req, started, menuVars, failures,
                 userVars, reservationVars>>

\* initializeCategories: the store rejects the getDocs or a setDoc; the catch
\* logs the error and the initialization ends
InitializeCategoriesFails ==
  /\ boot.pc \in {"getDocs", "setDoc"}
  /\ Reject
  /\ boot' = [boot EXCEPT !.pc = "done", !.interrupted = TRUE]
  /\ UNCHANGED <<users, orders, now, req, started, menuVars, categories,
                 userVars, reservationVars>>

\* the server is started again once the initialization has ended: a new
\* FirestoreStorage is constructed over the same document store
Restart ==
  /\ boot.pc = "done"
  /\ boot' = Constructed
  /\ usersMap' = <<>>
  /\ userIdCounter' = 1
  /\ sreq' = [r \in Reqs |-> SIdle]
  /\ returned' = <<>>
  /\ UNCHANGED <<users, orders, now, req, started, menuVars, categories, failures,
                 reservationVars>>

\* names given to createCategory
CategoryNames == {"Crepe", "Jus Frais"}

\* toLowerCase on the letters of CategoryNames
toLowerCase(c) ==
  CASE c = "C" -> "c" [] c = "J" -> "j" [] c = "F" -> "f" [] OTHER -> c

\* name.toLowerCase().replace(/\s+/g, '-')
RECURSIVE slug(_)
slug(name) ==
  IF name = "" THEN ""
  ELSE LET c == SubSeq(name, 1, 1)
           rest == SubSeq(name, 2, Len(name))
       IN IF c = " "
          THEN IF rest # "" /\ SubSeq(rest, 1, 1) = " " THEN slug(rest)
               ELSE "-" \o slug(rest)
          ELSE toLowerCase(c) \o slug(rest)

\* createCategory: the document id is derived from the name
createCategory(insertCategory) ==
  [id |-> slug(insertCategory.name), name |-> insertCategory.name,
   order |-> insertCategory.order]

CallCreateCategory ==
  \E name \in CategoryNames :
    /\ Arrive
    /\ LET category == createCategory([name |-> name, order |-> 0])
       IN categories' = (category.id :> category) @@ categories
    /\ UNCHANGED <<users, orders, now, req, menuVars, boot, failures,
                   userVars, reservationVars>>

NextCategories ==
  \/ InitializeDefaultData
  \/ InitializeCategoriesGetDocs
  \/ InitializeCategoriesSetDoc
  \/ InitializeCategoriesFails
  \/ Restart
  \/ CallCreateCategory

SpecCategories == Init /\ [][NextCategories]_vars

\* the runtime resumes the initialization when the store answers, the store
\* rejects at most MaxFailures calls, and the server is started again after
\* every initialization that has ended
FairCategories ==
  /\ WF_vars(InitializeDefaultData)
  /\ WF_vars(InitializeCategoriesGetDocs)
  /\ WF_vars(InitializeCategoriesSetDoc)
  /\ WF_vars(Restart)

SpecCategoriesFair == Init /\ [][NextCategories]_vars /\ FairCategories

(***************************************************************************)
(* Users: the in-memory map and POST /api/users/create-staff               *)
(***************************************************************************)
\* email and role of a create-staff body, and of an InsertUser
StaffEmails == {"staff@kinder.dz", "test@test.com"}
BodyRoles == {"livreur", "client"}

\* getUserByEmail: the first user of the map with that email
getUserByEmail(map, email) ==
  IF \E id \in DOMAIN map : map[id].email = email
  THEN Some(map[CHOOSE id \in DOMAIN map :
                  /\ map[id].email = email
                  /\ \A other \in DOMAIN map : map[other].email = email => id <= other])
  ELSE None

\* the User createUser builds under the id it took from the counter
\* (password, name, phone, active and createdAt left out)
createUser(insertUser, id) ==
  [id |-> id, email |-> insertUser.email, role |-> insertUser.role]

\* this.users.set(id, user)
MapSet(map, id, user) == (id :> user) @@ map

SSent == \E r \in Reqs : sreq[r].pc = "done"

SAccept(r) ==
  /\ sreq[r].pc = "idle"
  /\ \A q \in Reqs : q < r => sreq[q].pc # "idle"
  /\ ~SSent
  /\ Arrive

\* POST /api/users/create-staff up to its await of bcrypt: the role is
\* validated and the email looked up
CreateStaffBegin(r) ==
  \E email \in StaffEmails, role \in BodyRoles :
    /\ SAccept(r)
    /\ LET existingUser == getUserByEmail(usersMap, email)
           base == [SIdle EXCEPT !.email = email, !.role = role]
       IN sreq' = [sreq EXCEPT ![r] =
            IF role \notin {"owner", "livreur"} \/ existingUser # None
            THEN [base EXCEPT !.pc = "done", !.code = 400]
            ELSE [base EXCEPT !.pc = "hash"]]
    /\ UNCHANGED <<users, orders, now, req, menuVars, bootVars, usersMap,
                   userIdCounter, returned, reservationVars>>

\* POST /api/users/create-staff once the password is hashed: createUser and
\* the 201 response
CreateStaffCreate(r) ==
  /\ ~SSent
  /\ sreq[r].pc = "hash"
  /\ LET user == createUser([email |-> sreq[r].email, role |-> sreq[r].role],
                            userIdCounter)
     IN /\ userIdCounter' = userIdCounter + 1
        /\ usersMap' = MapSet(usersMap, user.id, user)
        /\ returned' = Append(returned, user)
        /\ sreq' = [sreq EXCEPT ![r] = [@ EXCEPT !.pc = "done", !.code = 201,
                                                 !.user = Some(user)]]
  /\ UNCHANGED <<users, orders, now, req, started, menuVars, bootVars,
                 reservationVars>>

\* the response is received
SFinish(r) ==
  /\ sreq[r].pc = "done"
  /\ sreq' = [sreq EXCEPT ![r] = SIdle]
  /\ UNCHANGED <<users, orders, now, req, started, menuVars, bootVars, usersMap,
                 userIdCounter, returned, reservationVars>>

\* createUser called on the gateway
CallCreateUser ==
  \E email \in StaffEmails :
    /\ ~SSent
    /\ Arrive
    /\ LET user == createUser([email |-> email, role |-> "client"], userIdCounter)
       IN /\ userIdCounter' = userIdCounter + 1
          /\ usersMap' = MapSet(usersMap, user.id, user)
          /\ returned' = Append(returned, user)
    /\ UNCHANGED <<users, orders, now, req, menuVars, bootVars, sreq,
                   reservationVars>>

NextStaff ==
  \/ InitializeDefaultData
  \/ InitializeCategoriesGetDocs
  \/ InitializeCategoriesSetDoc
  \/ \E r \in Reqs : CreateStaffBegin(r)
  \/ \E r \in Reqs : CreateStaffCreate(r)
  \/ \E r \in Reqs : SFinish(r)

SpecStaff == Init /\ [][NextStaff]_vars

NextUsers ==
  \/ NextStaff
  \/ CallCreateUser

SpecUsers == Init /\ [][NextUsers]_vars

(***************************************************************************)
(* Reservations                                                            *)
(***************************************************************************)
\* createReservation: the record built before the write (the contact fields,
\* date, time and partySize are copied and left out)
createReservation(insertReservation, id, t) ==
  [id |-> id, status |-> "pending", createdAt |-> t]

\* the record getReservations makes of a document
mapReservation(data) ==
  [id |-> data.id, status |-> IF data.status = "" THEN "pending" ELSE data.status,
   createdAt |-> data.createdAt]

\* mutation: the list is sorted by createdAt ascending
getReservations_ascending(store) ==
  LET sorted == SortDesc(Docs(store))
  IN [k \in 1..Len(sorted) |-> mapReservation(sorted[Len(sorted) + 1 - k])]

\* getReservations: the documents sorted by createdAt descending
getReservations(store) ==
  LET sorted == SortDesc(Docs(store))
  IN [k \in 1..Len(sorted) |-> mapReservation(sorted[k])]

\* POST /api/reservations up to the setDoc of createReservation: the id is
\* drawn and the clock read
CreateReservationBegin(r) ==
  \E id \in ReservationIds, t \in 0..MaxTime :
    /\ rreq[r] = None
    /\ \A q \in Reqs : q < r => rreq[q] # None
    /\ id \notin DOMAIN reservations
    /\ \A q \in Reqs : rreq[q] # None => rreq[q][1].id # id
    /\ Arrive
    /\ Date(t)
    /\ rreq' = [rreq EXCEPT ![r] = Some(createReservation([status |-> "confirmed"], id, t))]
    /\ UNCHANGED <<users, orders, req, menuVars, bootVars, userVars,
                   reservations, created, listed>>

\* createReservation: the setDoc lands and the reservation is returned
CreateReservationSetDoc(r) ==
  /\ rreq[r] # None
  /\ reservations' = (rreq[r][1].id :> rreq[r][1]) @@ reservations
  /\ created' = Append(created, rreq[r][1].id)
  /\ listed' = None
  /\ rreq' = [rreq EXCEPT ![r] = None]
  /\ UNCHANGED <<users, orders, now, req, started, menuVars, bootVars, userVars>>

\* GET /api/reservations
CallGetReservations ==
  /\ Arrive
  /\ listed' = Some(getReservations(reservations))
  /\ UNCHANGED <<users, orders, now, req, menuVars, bootVars, userVars,
                 reservations, rreq, created>>

NextReservations ==
  \/ \E r \in Reqs : CreateReservationBegin(r)
  \/ \E r \in Reqs : CreateReservationSetDoc(r)
  \/ CallGetReservations

SpecReservations == Init /\ [][NextReservations]_vars

(***************************************************************************)
(* Properties                                                              *)
(***************************************************************************)
Done(r, kind) == req[r].pc = "done" /\ req[r].kind = kind

Role(r) == users[req[r].actor]

IdsOf(list) == {list[i].id : i \in 1..Len(list)}

\* C1: whenever the store did not change during a livreur's GET /api/orders,
\* the response holds exactly the orders that are pending and unassigned, or
\* assigned to the actor
C1_LivreurViewExact ==
  \A r \in Reqs :
    Done(r, "GET") /\ Role(r) = "livreur" /\ ~req[r].touched
    => IdsOf(req[r].body) =
         {id \in DOMAIN orders :
            \/ orders[id].status = "pending" /\ orders[id].livreurId = Null
            \/ orders[id].livreurId = req[r].actor}

\* C2: in every step, an order's livreurId that is set keeps its value
C2_LivreurIdNeverReassigned ==
  [][\A id \in DOMAIN orders :
       orders[id].livreurId # Null => orders'[id].livreurId = orders[id].livreurId]_vars

\* C3: a livreur's PATCH with status confirmed that read livreurId null is
\* answered with the order, also when another courier's claim landed in
\* between, and unless a later write landed the stored livreurId is its actor's
C3_LastClaimWins ==
  \A r \in Reqs :
    /\ Done(r, "PATCH") /\ Role(r) = "livreur" /\ req[r].status = "confirmed"
    /\ req[r].order # None /\ req[r].order[1].livreurId = Null
    => /\ req[r].code = 200
       /\ req[r].body # None
       /\ ~req[r].overwritten => orders[req[r].id].livreurId = req[r].actor

\* a claim that landed on an order another courier had claimed meanwhile
C3_Witness ==
  \E r \in Reqs :
    /\ Done(r, "PATCH") /\ Role(r) = "livreur" /\ req[r].status = "confirmed"
    /\ req[r].order # None /\ req[r].order[1].livreurId = Null
    /\ req[r].raced /\ ~req[r].overwritten
    /\ orders[req[r].id].livreurId = req[r].actor

\* C4: a livreur's PATCH with status confirmed on an unassigned order, with no
\* other write to the order meanwhile, leaves it confirmed and assigned to the
\* actor, and answers with that record
C4_ClaimAssigns ==
  \A r \in Reqs :
    /\ Done(r, "PATCH") /\ Role(r) = "livreur" /\ req[r].status = "confirmed"
    /\ req[r].order # None /\ req[r].order[1].livreurId = Null
    /\ ~req[r].touched
    => /\ req[r].code = 200
       /\ orders[req[r].id].status = "confirmed"
       /\ orders[req[r].id].livreurId = req[r].actor
       /\ req[r].body # None
       /\ req[r].body[1].status = "confirmed"
       /\ req[r].body[1].livreurId = req[r].actor

C4_Witness ==
  \E r \in Reqs :
    /\ Done(r, "PATCH") /\ Role(r) = "livreur" /\ req[r].status = "confirmed"
    /\ req[r].order # None /\ req[r].order[1].livreurId = Null
    /\ ~req[r].touched /\ req[r].code = 200

\* C5: a livreur's PATCH that read the order as assigned to another courier
\* writes no livreurId, whatever status it carries; with no other write to the
\* order meanwhile, the order and the answer keep the livreurId that was read
C5_ClaimSticky ==
  \A r \in Reqs :
    /\ req[r].kind = "PATCH" /\ Role(r) = "livreur"
    /\ req[r].order # None /\ req[r].order[1].livreurId \notin {Null, req[r].actor}
    => /\ req[r].data # None => "livreurId" \notin DOMAIN req[r].data[1]
       /\ req[r].pc = "done" /\ ~req[r].touched
          => /\ orders[req[r].id].livreurId = req[r].order[1].livreurId
             /\ req[r].body # None
             /\ req[r].body[1].livreurId = req[r].order[1].livreurId

\* courier 3 confirms an order courier 2 has claimed
C5_Witness ==
  \E r \in Reqs :
    /\ Done(r, "PATCH") /\ req[r].actor = 3 /\ req[r].status = "confirmed"
    /\ req[r].order # None /\ req[r].order[1].livreurId = 2
    /\ ~req[r].touched /\ req[r].code = 200

\* C6: a PATCH by an actor that is neither livreur nor owner never reaches
\* updateOrder; on an existing order it is answered 403 and the document is
\* as it was read
C6_Forbidden ==
  \A r \in Reqs :
    req[r].kind = "PATCH" /\ Role(r) \notin {"livreur", "owner"}
    => /\ req[r].pc = "done"
       /\ req[r].order # None
          => /\ req[r].code = 403
             /\ mapOrder(orders[req[r].id]) = req[r].order[1]

C6_Witness ==
  \E r \in Reqs :
    /\ Done(r, "PATCH") /\ Role(r) = "client" /\ req[r].status = "confirmed"
    /\ req[r].order # None /\ req[r].code = 403

\* C7: the owner's GET /api/orders holds every stored order exactly once
C7_OwnerSeesAll ==
  \A r \in Reqs :
    Done(r, "GET") /\ Role(r) = "owner"
    => /\ req[r].code = 200
       /\ Len(req[r].body) = Cardinality(DOMAIN orders)
       /\ \A id \in DOMAIN orders :
            \E i \in 1..Len(req[r].body) :
              /\ req[r].body[i].id = id
              /\ req[r].body[i].userId = orders[id].userId
              /\ req[r].body[i].status = orders[id].status
              /\ req[r].body[i].livreurId = orders[id].livreurId

\* the owner lists a guest's order and an order that is no longer pending
C7_Witness ==
  \E r \in Reqs :
    /\ Done(r, "GET") /\ Role(r) = "owner"
    /\ \E i \in 1..Len(req[r].body) :
         req[r].body[i].userId = Null /\ req[r].body[i].status # "pending"

\* C8: the GET /api/orders of any other role holds exactly the orders whose
\* userId is the actor's id
C8_ClientSeesOwn ==
  \A r \in Reqs :
    Done(r, "GET") /\ Role(r) \notin {"owner", "livreur"}
    => /\ req[r].code = 200
       /\ IdsOf(req[r].body) = {id \in DOMAIN orders : orders[id].userId = req[r].actor}
       /\ Len(req[r].body) = Cardinality(IdsOf(req[r].body))
       /\ \A i \in 1..Len(req[r].body) : req[r].body[i].userId = req[r].actor

\* a client lists its order while the store holds somebody else's
C8_Witness ==
  \E r \in Reqs :
    /\ Done(r, "GET") /\ Role(r) = "client"
    /\ Len(req[r].body) = 1
    /\ \E id \in DOMAIN orders : orders[id].userId # req[r].actor

\* C9: a livreur's list holds each id once, and an id both queries returned
\* with the copy of the assigned-to-self query
C9_DedupKeepsAssigned ==
  \A r \in Reqs :
    Done(r, "GET") /\ Role(r) = "livreur"
    => /\ \A i, j \in 1..Len(req[r].body) :
            req[r].body[i].id = req[r].body[j].id => i = j
       /\ IdsOf(req[r].body) = IdsOf(req[r].pendingOrders) \cup IdsOf(req[r].assignedOrders)
       /\ \A i \in 1..Len(req[r].body), k \in 1..Len(req[r].assignedOrders) :
            req[r].body[i].id = req[r].assignedOrders[k].id
            => req[r].body[i] = req[r].assignedOrders[k]

\* both queries returned the order, and it changed between the two reads
C9_Witness ==
  \E r \in Reqs :
    /\ Done(r, "GET") /\ Role(r) = "livreur"
    /\ \E i \in 1..Len(req[r].pendingOrders), k \in 1..Len(req[r].assignedOrders) :
         /\ req[r].pendingOrders[i].id = req[r].assignedOrders[k].id
         /\ req[r].pendingOrders[i] # req[r].assignedOrders[k]

\* C10: an order is created pending and unassigned, and an unassigned order
\* gets a livreurId only by the write of a livreur's PATCH
C10_CreatedUnassigned ==
  [][/\ \A id \in DOMAIN orders' \ DOMAIN orders :
          orders'[id].status = "pending" /\ orders'[id].livreurId = Null
     /\ \A id \in DOMAIN orders :
          orders[id].livreurId = Null /\ orders'[id].livreurId # Null
          => \E r \in Reqs : /\ req[r].pc = "update_updateDoc" /\ req[r].id = id
                             /\ Role(r) = "livreur"
                             /\ orders'[id].livreurId = req[r].actor]_vars

\* C11: a livreur's PATCH puts a livreurId in its write only if the order it
\* read has status pending
C11_ClaimOnlyPending ==
  \A r \in Reqs :
    /\ req[r].kind = "PATCH" /\ Role(r) = "livreur"
    /\ req[r].updates # None /\ "livreurId" \in DOMAIN req[r].updates[1]
    => req[r].order[1].status = "pending"

\* C12: updateOrder stamps its write with the instant it reads, whatever the
\* updates carry, and the write that lands stores that instant as updatedAt
C12_UpdatedAtStamped ==
  [][\A r \in Reqs :
       /\ req[r].pc = "update_getDoc" /\ req'[r].pc = "update_updateDoc"
          => req'[r].data[1].updatedAt = now'
       /\ req[r].pc = "update_updateDoc" /\ req'[r].pc = "update_getOrder"
          => orders'[req[r].id].updatedAt = req[r].data[1].updatedAt]_vars

\* a PATCH without status whose write stored an instant later than the one
\* the route had put in updates
C12_Witness ==
  \E r \in Reqs :
    /\ Done(r, "PATCH") /\ req[r].status = "" /\ req[r].code = 200
    /\ req[r].data # None /\ ~req[r].overwritten
    /\ req[r].data[1].updatedAt > req[r].updates[1].updatedAt
    /\ orders[req[r].id].updatedAt = req[r].data[1].updatedAt

\* C13: a PATCH with a status by an owner or a livreur on an existing order is
\* answered 200 whatever status the order had; unless another write to the
\* order landed meanwhile, the order and the answer carry the requested status
C13_AnyTransition ==
  \A r \in Reqs :
    /\ Done(r, "PATCH") /\ Role(r) \in {"owner", "livreur"}
    /\ req[r].order # None /\ req[r].status # ""
    => /\ req[r].code = 200
       /\ req[r].body # None
       /\ ~req[r].touched
          => /\ orders[req[r].id].status = req[r].status
             /\ req[r].body[1].status = req[r].status

\* a delivered order is returned to pending
C13_Witness ==
  \E r \in Reqs :
    /\ Done(r, "PATCH") /\ req[r].order # None
    /\ req[r].order[1].status = "delivered" /\ req[r].status = "pending"
    /\ ~req[r].touched /\ req[r].code = 200
    /\ orders[req[r].id].status = "pending"

\* C14: a PATCH /api/orders/:id for an id without a document is answered 404;
\* updateOrder and updateMenuItem on an absent id return undefined; none of
\* these steps changes either collection
C14_AbsentIdNotFound ==
  [][/\ \A r \in Reqs :
          /\ req[r].pc = "idle" /\ req'[r].kind = "PATCH"
             /\ req'[r].id \notin DOMAIN orders
             => /\ req'[r].pc = "done" /\ req'[r].code = 404
                /\ orders' = orders /\ menuItems' = menuItems
          /\ req[r].pc = "update_getDoc" /\ req'[r].pc # "update_getDoc"
             /\ req[r].id \notin DOMAIN orders
             => /\ req'[r].pc = "done" /\ req'[r].body = None
                /\ orders' = orders /\ menuItems' = menuItems
     /\ \A r \in Reqs :
          /\ mreq[r].pc = "idle" /\ mreq'[r].kind = "updateMenuItem"
             /\ mreq'[r].id \notin DOMAIN menuItems
             => /\ mreq'[r].pc = "done" /\ mreq'[r].result = None
                /\ orders' = orders /\ menuItems' = menuItems
          /\ mreq[r].pc = "updateMenuItem_updateDoc" /\ mreq'[r].pc # mreq[r].pc
             /\ mreq[r].id \notin DOMAIN menuItems
             => /\ mreq'[r].pc = "done" /\ mreq'[r].result = None
                /\ orders' = orders /\ menuItems' = menuItems]_vars

\* a PATCH answered 404 on an id without order, and an updateMenuItem that
\* returned undefined on an id absent from a collection that holds another item
C14_Witness ==
  /\ \E r \in Reqs :
       /\ Done(r, "PATCH") /\ req[r].code = 404
       /\ req[r].id \notin DOMAIN orders
  /\ \E r \in Reqs :
       /\ mreq[r].pc = "done" /\ mreq[r].kind = "updateMenuItem"
       /\ mreq[r].result = None /\ ~mreq[r].found
       /\ mreq[r].id \notin DOMAIN menuItems /\ menuItems # <<>>

\* C17: the write of updateMenuItem(id, updates) changes no other item, and
\* of item id no field that is absent or undefined in updates
C17_UpdateFrame ==
  [][\A r \in Reqs :
       mreq[r].pc = "updateMenuItem_updateDoc" /\ mreq'[r].pc = "updateMenuItem_getMenuItem"
       => /\ DOMAIN menuItems' = DOMAIN menuItems
          /\ \A id \in DOMAIN menuItems \ {mreq[r].id} : menuItems'[id] = menuItems[id]
          /\ \A f \in MenuFields \cup {"id"} :
               Get(mreq[r].updates[1], f) = Undefined
               => menuItems'[mreq[r].id][f] = menuItems[mreq[r].id][f]]_vars

\* an update with only {available: false} of an available item, beside another
\* item: the flag is cleared, the other fields are as they were read
C17_Witness ==
  \E r \in Reqs :
    /\ mreq[r].pc = "done" /\ mreq[r].kind = "updateMenuItem"
    /\ mreq[r].updates[1] = [available |-> Bool(FALSE)]
    /\ mreq[r].item # None /\ mreq[r].item[1].available = Bool(TRUE)
    /\ Cardinality(DOMAIN menuItems) = 2
    /\ menuItems[mreq[r].id] = [mreq[r].item[1] EXCEPT !.available = Bool(FALSE)]
    /\ mreq[r].result = Some(menuItems[mreq[r].id])

\* C18: a DELETE /api/menu-items/:id for an id without item is answered 404,
\* and deleteMenuItem on such an id returns true without raising; neither
\* changes the menu collection or the object storage, so that repeating the
\* deletion meets the same state and the same outcome
C18_DeleteAbsentIdempotent ==
  [][\A r \in Reqs :
       /\ mreq[r].pc = "idle" /\ mreq'[r].kind = "DELETE"
          /\ mreq'[r].id \notin DOMAIN menuItems
          => /\ mreq'[r].pc = "done" /\ mreq'[r].code = 404
             /\ menuItems' = menuItems /\ assets' = assets
       /\ mreq[r].pc = "idle" /\ mreq'[r].kind = "deleteMenuItem"
          /\ mreq'[r].id \notin DOMAIN menuItems
          => /\ mreq'[r].pc = "done" /\ mreq'[r].result = Some(Bool(TRUE))
             /\ menuItems' = menuItems /\ assets' = assets]_vars

\* the second of two DELETE requests in a row for an id that has no item,
\* beside an item that is kept
C18_Witness ==
  \E r \in Reqs :
    /\ mreq[r].pc = "done" /\ mreq[r].kind = "DELETE" /\ mreq[r].code = 404
    /\ last = Some([kind |-> "DELETE", id |-> mreq[r].id, code |-> 404, result |-> None])
    /\ mreq[r].id \notin DOMAIN menuItems /\ menuItems # <<>>

\* the InsertMenuItem with the numeric price and deliveryFee in string form
AsStrings(insertItem) ==
  [insertItem EXCEPT
     !.price = IF @.type = "number" THEN Str(Number_toString(@.n)) ELSE @,
     !.deliveryFee = IF @.type = "number" THEN Str(Number_toString(@.n)) ELSE @]

\* C19: createMenuItem stores and returns price and deliveryFee as strings; a
\* numeric price or deliveryFee gives the record that its string form gives,
\* 12 gives "12" and 3 gives "3"
C19_MoneyAsString ==
  \A r \in Reqs :
    mreq[r].pc = "done" /\ mreq[r].kind = "createMenuItem"
    => LET insertItem == mreq[r].insert[1]
           menuItem == mreq[r].result[1]
       IN /\ menuItem.price.type = "string" /\ menuItem.deliveryFee.type = "string"
          /\ menuItems[mreq[r].id] = menuItem
          /\ menuItem = createMenuItem(AsStrings(insertItem), mreq[r].id)
          /\ insertItem.price \in {Num(12), Str("12")} => menuItem.price = Str("12")
          /\ insertItem.deliveryFee \in {Num(3), Str("3")} => menuItem.deliveryFee = Str("3")

\* an item created with price 12 and deliveryFee 3 beside a stored item that
\* carries the same strings
C19_Witness ==
  \E r \in Reqs :
    /\ mreq[r].pc = "done" /\ mreq[r].kind = "createMenuItem"
    /\ mreq[r].insert[1].price = Num(12) /\ mreq[r].insert[1].deliveryFee = Num(3)
    /\ \E id \in DOMAIN menuItems \ {mreq[r].id} :
         /\ menuItems[id].price = menuItems[mreq[r].id].price
         /\ menuItems[id].deliveryFee = menuItems[mreq[r].id].deliveryFee

\* C15: a PATCH /api/orders/:id whose updateDoc was rejected by the store is
\* not answered with the status of a success
C15_WriteFailureSignalled ==
  \A r \in Reqs :
    Done(r, "PATCH") /\ req[r].failed = "update_updateDoc" => req[r].code # 200

\* C16: a gateway operation whose store call was rejected raises nothing to
\* its caller: a list read returns [], any other operation a failure value
C16_FailuresCaught ==
  \A r \in Reqs :
    req[r].pc = "done" /\ req[r].failed # ""
    => /\ ~req[r].threw
       /\ req[r].body = <<>>

\* C20: every stored order, and every order a gateway operation returns, has
\* a string totalAmount
C20_TotalAmountString ==
  /\ \A id \in DOMAIN orders : orders[id].totalAmount.type = "string"
  /\ \A r \in Reqs :
       req[r].pc = "done" /\ req[r].kind \in {"createOrder", "getOrders", "PATCH"}
       => \A i \in 1..Len(req[r].body) : req[r].body[i].totalAmount.type = "string"

\* C21: an item created without an available value, by createMenuItem or by
\* POST /api/menu-items, is stored and read back with available = true, and
\* with popular = false when popular was omitted
C21_DefaultFlags ==
  \A r \in Reqs :
    /\ mreq[r].pc = "done" /\ mreq[r].kind \in {"createMenuItem", "POST"}
    /\ mreq[r].result # None
    => LET given == IF mreq[r].kind = "POST" THEN mreq[r].reqBody[1] ELSE mreq[r].insert[1]
           stored == menuItems[mreq[r].id]
           read == getMenuItem(menuItems, mreq[r].id)[1]
       IN /\ given.available = Undefined
             => stored.available = Bool(TRUE) /\ read.available = Bool(TRUE)
          /\ given.popular = Undefined
             => stored.popular = Bool(FALSE) /\ read.popular = Bool(FALSE)

\* C27: a livreur's PATCH reaches updateOrder only for an order it read as
\* pending and unassigned, or as assigned to the actor
C27_CourierOwnView ==
  \A r \in Reqs :
    /\ req[r].kind = "PATCH" /\ Role(r) = "livreur"
    /\ req[r].updates # None
    => \/ req[r].order[1].status = "pending" /\ req[r].order[1].livreurId = Null
       \/ req[r].order[1].livreurId = req[r].actor

\* C24: when client.delete of the referenced asset fails in DELETE
\* /api/menu-items/:id or in PATCH /api/menu-items/:id, the route goes on:
\* unless a store call is rejected, the DELETE removes the item and answers
\* 200, and the PATCH writes the new imageUrl and answers 200
C24_AssetFailureTolerated ==
  [][\A r \in Reqs :
       /\ mreq'[r].assetFailed /\ ~mreq[r].assetFailed
          => mreq'[r].pc \in {"route_getDoc", "delete_deleteDoc"}
       /\ mreq[r].assetFailed /\ mreq[r].pc = "delete_deleteDoc"
          /\ mreq'[r].pc = "done" /\ mreq'[r].failed = ""
          => mreq'[r].code = 200 /\ mreq[r].id \notin DOMAIN menuItems'
       /\ mreq[r].assetFailed /\ mreq[r].kind = "PATCH"
          /\ mreq[r].pc = "route_updateDoc" /\ mreq'[r].pc = "route_getMenuItem"
          => menuItems'[mreq[r].id].imageUrl = mreq[r].updates[1].imageUrl
       /\ mreq[r].assetFailed /\ mreq[r].kind = "PATCH"
          /\ mreq[r].pc = "route_getMenuItem"
          /\ mreq'[r].pc = "done" /\ mreq'[r].failed = ""
          /\ mreq[r].id \in DOMAIN menuItems
          => mreq'[r].code = 200]_vars

\* a PATCH with a new image whose deletion of the old asset failed: answered
\* 200, the item carries the new imageUrl
C24_Witness ==
  \E r \in Reqs :
    /\ mreq[r].pc = "done" /\ mreq[r].kind = "PATCH" /\ mreq[r].file
    /\ mreq[r].assetFailed /\ mreq[r].code = 200
    /\ menuItems[mreq[r].id].imageUrl = mreq[r].updates[1].imageUrl
    /\ menuItems[mreq[r].id].imageUrl # mreq[r].item[1].imageUrl

\* C26: the write of a PATCH /api/menu-items/:id whose body mentions neither
\* available nor popular leaves the stored available and popular as they were
C26_PatchFlagsFrame ==
  [][\A r \in Reqs :
       /\ mreq[r].kind = "PATCH"
       /\ mreq[r].pc = "route_updateDoc" /\ mreq'[r].pc = "route_getMenuItem"
       /\ DOMAIN mreq[r].reqBody[1] \cap {"available", "popular"} = {}
       => /\ menuItems'[mreq[r].id].available = menuItems[mreq[r].id].available
          /\ menuItems'[mreq[r].id].popular = menuItems[mreq[r].id].popular]_vars

\* C28: once every menu item request has been answered, no stored menu item
\* has an imageUrl under /storage/ whose asset the application has deleted
C28_NoDanglingImage ==
  (\A r \in Reqs : mreq[r].pc \in {"idle", "done"})
  => \A id \in DOMAIN menuItems :
       IsStored(menuItems[id].imageUrl)
         => fileNameOf(menuItems[id].imageUrl) \notin removed

\* C22: an initialization whose getDocs found the 8 default categories in
\* the store writes nothing to the categories collection, however many
\* times the server is started
C22_SeededStoreUntouched ==
  /\ boot.snapshot # None
  /\ DefaultCategoryIds \subseteq boot.snapshot[1]
  => boot.written = {}

\* an initialization that found the 8 default categories has ended
C22_Witness ==
  /\ boot.pc = "done" /\ ~boot.interrupted
  /\ boot.snapshot # None
  /\ DefaultCategoryIds \subseteq boot.snapshot[1]
  /\ DefaultCategoryIds \subseteq DOMAIN categories

\* C30: once an initialization has found the categories collection empty,
\* the store eventually holds the 8 default categories, also after a store
\* failure has interrupted the seeding: a later initialization writes the
\* missing ones
C30_SeedingCompletes ==
  /\ (boot.snapshot = Some({})) ~> (DefaultCategoryIds \subseteq DOMAIN categories)
  /\ (boot.interrupted /\ boot.written # {})
       ~> (DefaultCategoryIds \subseteq DOMAIN categories)

\* C25: after any interleaving of POST /api/users/create-staff requests, no
\* two users of the map share an email
C25_UniqueEmails ==
  \A id \in DOMAIN usersMap, other \in DOMAIN usersMap :
    id # other => usersMap[id].email # usersMap[other].email

\* C29: every user createUser has returned is still in the map under its id
\* with its data, and no two returned users have the same id, also when
\* createUser runs before initializeDefaultData has resumed
C29_ReturnedUsersKept ==
  /\ \A k \in DOMAIN returned :
       /\ returned[k].id \in DOMAIN usersMap
       /\ usersMap[returned[k].id] = returned[k]
  /\ \A k \in DOMAIN returned, l \in DOMAIN returned :
       k # l => returned[k].id # returned[l].id

\* position of reservation id in a list
Position(list, id) == CHOOSE k \in DOMAIN list : list[k].id = id

\* the reservation createReservation returned last
Newest == created[Len(created)]

====
